---------------------------- MODULE Spec2Model ----------------------------
(***************************************************************************)
(* Model of ch-ray-ml/ray-train.ipynb: the per-worker function train_loop  *)
(* that TorchTrainer runs on num_workers Ray Train workers, with the       *)
(* temporary checkpoint directory each worker stages and reports, and the  *)
(* persistent storage the reports upload to.                               *)
(*                                                                         *)
(* What the notebook calls into (process group setup, DistributedSampler,  *)
(* DistributedDataParallel, the driver behind trainer.fit()) is code of    *)
(* the ray and torch packages and is not modelled: only what the notebook  *)
(* itself states, executes or logs is.                                     *)
(***************************************************************************)
EXTENDS Integers, Sequences, FiniteSets

\* ScalingConfig(num_workers=4, ...) in the notebook; checked here for a
\* smaller worker group.
NumWorkers == 2

\* range(10): the number of epochs train_loop runs.
NumEpochs == 10

\* World ranks of the workers, as listed by "Started distributed worker
\* processes" (world_rank=0 .. world_rank=num_workers-1).
Workers == 0 .. (NumWorkers - 1)

\* ray.train.get_context().get_world_size()
get_world_size == NumWorkers

\* ray.train.get_context().get_world_rank() of worker w
get_world_rank(w) == w

VARIABLES
    pc,            \* pc[w]: the statement of train_loop worker w is at
    epoch,         \* epoch[w]: the loop variable of "for epoch in range(10)"
    samplerEpoch,  \* samplerEpoch[w]: last value given to sampler.set_epoch, -1 if none
    metrics,       \* metrics[w]: the dict built for the current epoch
    localDirs,     \* the temporary checkpoint directories that exist on local disk
    uploads,       \* the files uploaded to persistent storage, with the rank that wrote each
    reports,       \* reports[w]: the metrics of the report calls that returned, in order
    stdout         \* what print(metrics) has written, in order

vars == <<pc, epoch, samplerEpoch, metrics, localDirs, uploads, reports, stdout>>

NoMetrics == [epoch |-> -1]

\* os.path.join(temp_checkpoint_dir, "model.pt"): the same file name on every rank.
ModelFile(rank) == "model.pt"

\* The directory a report is persisted to: checkpoint_000000, checkpoint_000001, ...
\* numbered by the worker's earlier reports; the same directory is logged by all
\* workers ("repeated 4x across cluster").
CheckpointDir(rank, index) == <<"checkpoint", index>>

\* tempfile.TemporaryDirectory(): a fresh directory, named apart from every other.
TempDir(w, e) == [rank |-> w, epoch |-> e, files |-> {}]

\* The temporary directories of worker w that exist.
DirsOf(dirs, w) == {d \in dirs : d.rank = w}

\* Mutant of Cleanup: the directory is left behind, as with tempfile.mkdtemp().
CleanupLeak(dirs, w) == dirs

\* TemporaryDirectory.__exit__: the directory and its contents are removed,
\* whether the with body returned or raised.
Cleanup(dirs, w) == dirs \ DirsOf(dirs, w)

\* The files a report of worker w uploads: every file of the checkpoint
\* directory, put under the checkpoint directory of persistent storage.
UploadedFiles(w, d) ==
    {[path |-> <<CheckpointDir(w, Len(reports[w])), f>>, rank |-> w, epoch |-> d.epoch] :
        f \in d.files}

Init ==
    /\ pc = [w \in Workers |-> "for"]
    /\ epoch = [w \in Workers |-> 0]
    /\ samplerEpoch = [w \in Workers |-> -1]
    /\ metrics = [w \in Workers |-> NoMetrics]
    /\ localDirs = {}
    /\ uploads = {}
    /\ reports = [w \in Workers |-> <<>>]
    /\ stdout = <<>>

\* "for epoch in range(10):" with the set_epoch that opens the body.
ForEpoch(w) ==
    /\ pc[w] = "for"
    /\ IF epoch[w] < NumEpochs
       THEN /\ pc' = [pc EXCEPT ![w] = "train"]
            /\ samplerEpoch' = IF get_world_size > 1
                               THEN [samplerEpoch EXCEPT ![w] = epoch[w]]
                               ELSE samplerEpoch
       ELSE /\ pc' = [pc EXCEPT ![w] = "done"]
            /\ UNCHANGED samplerEpoch
    /\ UNCHANGED <<epoch, metrics, localDirs, uploads, reports, stdout>>

\* train_func(model, optimizer, criterion, train_loader): one pass over the
\* worker's batches; it changes the model's parameters only.
TrainFunc(w) ==
    /\ pc[w] = "train"
    /\ pc' = [pc EXCEPT ![w] = "test"]
    /\ UNCHANGED <<epoch, samplerEpoch, metrics, localDirs, uploads, reports, stdout>>

\* acc = test_func(model, test_loader); metrics = {"acc": acc, "epoch": epoch}
\* (the accuracy is a number no statement branches on; the record keeps the epoch).
TestFunc(w) ==
    /\ pc[w] = "test"
    /\ metrics' = [metrics EXCEPT ![w] = [epoch |-> epoch[w]]]
    /\ pc' = [pc EXCEPT ![w] = "with"]
    /\ UNCHANGED <<epoch, samplerEpoch, localDirs, uploads, reports, stdout>>

\* with tempfile.TemporaryDirectory() as temp_checkpoint_dir:
EnterWith(w) ==
    /\ pc[w] = "with"
    /\ localDirs' = localDirs \cup {TempDir(w, epoch[w])}
    /\ pc' = [pc EXCEPT ![w] = "save"]
    /\ UNCHANGED <<epoch, samplerEpoch, metrics, uploads, reports, stdout>>

\* torch.save(model.state_dict(), os.path.join(temp_checkpoint_dir, "model.pt"))
TorchSave(w) ==
    /\ pc[w] = "save"
    /\ localDirs' = {IF d.rank = w
                     THEN [d EXCEPT !.files = @ \cup {ModelFile(get_world_rank(w))}]
                     ELSE d : d \in localDirs}
    /\ pc' = [pc EXCEPT ![w] = "report"]
    /\ UNCHANGED <<epoch, samplerEpoch, metrics, uploads, reports, stdout>>

\* Mutant of ReportReturns: only rank 0 reports, the other ranks pass by.
ReportReturnsRankZeroOnly(w) ==
    /\ pc[w] = "report"
    /\ uploads' = IF get_world_rank(w) = 0
                  THEN uploads \cup UNION {UploadedFiles(w, d) : d \in DirsOf(localDirs, w)}
                  ELSE uploads
    /\ reports' = IF get_world_rank(w) = 0
                  THEN [reports EXCEPT ![w] = Append(@, metrics[w])]
                  ELSE reports
    /\ pc' = [pc EXCEPT ![w] = "reported"]
    /\ UNCHANGED <<epoch, samplerEpoch, metrics, localDirs, stdout>>

\* ray.train.report(metrics, checkpoint=Checkpoint.from_directory(temp_checkpoint_dir))
\* returns: the local checkpoint has been uploaded to the persistent file system.
ReportReturns(w) ==
    /\ pc[w] = "report"
    /\ uploads' = uploads \cup UNION {UploadedFiles(w, d) : d \in DirsOf(localDirs, w)}
    /\ reports' = [reports EXCEPT ![w] = Append(@, metrics[w])]
    /\ pc' = [pc EXCEPT ![w] = "reported"]
    /\ UNCHANGED <<epoch, samplerEpoch, metrics, localDirs, stdout>>

\* ray.train.report raises (the upload failed): nothing catches it, so the
\* exception leaves the with body.
ReportRaises(w) ==
    /\ pc[w] = "report"
    /\ pc' = [pc EXCEPT ![w] = "unwind"]
    /\ UNCHANGED <<epoch, samplerEpoch, metrics, localDirs, uploads, reports, stdout>>

\* The with block is left after report returned.
ExitWith(w) ==
    /\ pc[w] = "reported"
    /\ localDirs' = Cleanup(localDirs, w)
    /\ pc' = [pc EXCEPT ![w] = "print"]
    /\ UNCHANGED <<epoch, samplerEpoch, metrics, uploads, reports, stdout>>

\* The with block is left by the exception: the directory is removed and the
\* exception ends train_loop on this worker.
ExitWithRaising(w) ==
    /\ pc[w] = "unwind"
    /\ localDirs' = Cleanup(localDirs, w)
    /\ pc' = [pc EXCEPT ![w] = "failed"]
    /\ UNCHANGED <<epoch, samplerEpoch, metrics, uploads, reports, stdout>>

\* Mutant of PrintMetrics: the print is not guarded by the rank.
PrintMetricsEveryRank(w) ==
    /\ pc[w] = "print"
    /\ stdout' = Append(stdout, [rank |-> w, metrics |-> metrics[w]])
    /\ epoch' = [epoch EXCEPT ![w] = @ + 1]
    /\ pc' = [pc EXCEPT ![w] = "for"]
    /\ UNCHANGED <<samplerEpoch, metrics, localDirs, uploads, reports>>

\* if ray.train.get_context().get_world_rank() == 0: print(metrics)
\* and the loop takes its next value.
PrintMetrics(w) ==
    /\ pc[w] = "print"
    /\ stdout' = IF get_world_rank(w) = 0
                 THEN Append(stdout, [rank |-> w, metrics |-> metrics[w]])
                 ELSE stdout
    /\ epoch' = [epoch EXCEPT ![w] = @ + 1]
    /\ pc' = [pc EXCEPT ![w] = "for"]
    /\ UNCHANGED <<samplerEpoch, metrics, localDirs, uploads, reports>>

Next ==
    \E w \in Workers :
        \/ ForEpoch(w)
        \/ TrainFunc(w)
        \/ TestFunc(w)
        \/ EnterWith(w)
        \/ TorchSave(w)
        \/ ReportReturns(w)
        \/ ReportRaises(w)
        \/ ExitWith(w)
        \/ ExitWithRaising(w)
        \/ PrintMetrics(w)

Spec == Init /\ [][Next]_vars

----------------------------------------------------------------------------
\* Helpers of the statements about checkpoints.

\* Worker w has saved the checkpoint of its current epoch to its temporary
\* directory (torch.save has run for epoch[w]).
HasStaged(w) == pc[w] \in {"report", "reported", "unwind", "failed", "print"}

\* The checkpoint worker w staged for epoch e is in persistent storage.
Uploaded(w, e) ==
    \E u \in uploads :
        /\ u.rank = w
        /\ u.epoch = e
        /\ u.path = <<CheckpointDir(w, e), ModelFile(w)>>

\* The local staging copy of worker w exists, with the saved model in it.
LocalCopyExists(w) ==
    \E d \in DirsOf(localDirs, w) : ModelFile(w) \in d.files

----------------------------------------------------------------------------
C6_CopyKeptUntilUploaded ==
    \A w \in Workers :
        HasStaged(w) /\ ~Uploaded(w, epoch[w]) => LocalCopyExists(w)

\* C7, as stated: no two workers write to the same path of persistent storage.
C7_NoSharedPath ==
    \A a, b \in uploads : a.rank # b.rank => a.path # b.path

----------------------------------------------------------------------------
\* "ray.train.report(metrics=...) collects metrics for Rank=0 by default": the
\* records the driver is given are those of the reports of rank 0.
Surfaced ==
    [k \in 1 .. Len(reports[0]) |-> [rank |-> 0, metrics |-> reports[0][k]]]

\* Every worker has run train_loop to its end.
AllDone == \A w \in Workers : pc[w] = "done"

\* C12: what is printed and what is surfaced to the driver are records of rank 0
\* only, the k-th one for epoch k-1; in a successful run there are exactly
\* NumEpochs (10) of each, although every other rank has reported as often.
C12_OnlyRankZeroSurfaced ==
    /\ \A k \in 1 .. Len(stdout) :
           stdout[k].rank = 0 /\ stdout[k].metrics.epoch = k - 1
    /\ \A k \in 1 .. Len(Surfaced) :
           Surfaced[k].rank = 0 /\ Surfaced[k].metrics.epoch = k - 1
    /\ AllDone =>
           /\ Len(stdout) = NumEpochs
           /\ Len(Surfaced) = NumEpochs
           /\ \A w \in Workers : Len(reports[w]) = NumEpochs

\* C12 witness: a successful run has ended with the ten records of rank 0
\* printed while a rank other than 0 has made its ten reports too.
C12_Witness ==
    /\ AllDone
    /\ Len(stdout) = NumEpochs
    /\ \E w \in Workers : w # 0 /\ Len(reports[w]) = NumEpochs

----------------------------------------------------------------------------
\* C14: every worker, whatever its rank, reports exactly once per epoch, after
\* that epoch's training and evaluation, with the epochs 0, 1, 2, ... in order,
\* so the k-th report of every worker carries epoch k-1 and a worker that ends
\* train_loop has made NumEpochs (10) reports; only the print depends on the rank.
C14_OneReportPerEpochOnEveryRank ==
    \A w \in Workers :
        /\ \A k \in 1 .. Len(reports[w]) : reports[w][k].epoch = k - 1
        /\ Len(reports[w]) = IF pc[w] \in {"reported", "print"}
                             THEN epoch[w] + 1
                             ELSE epoch[w]
        /\ pc[w] = "report" => metrics[w].epoch = epoch[w]
        /\ pc[w] = "done" => Len(reports[w]) = NumEpochs
        /\ w # 0 => \A k \in 1 .. Len(stdout) : stdout[k].rank # w

\* C14 witness: a rank other than 0 has ended train_loop with its ten reports
\* made and rank 0 has made the same reports, while nothing of the other rank
\* was printed.
C14_Witness ==
    \E w \in Workers :
        /\ w # 0
        /\ pc[w] = "done"
        /\ Len(reports[w]) = NumEpochs
        /\ reports[w] = reports[0]
        /\ Len(stdout) = NumEpochs

=============================================================================
